---- MODULE Spec2Model ----
(***************************************************************************)
(* MH-Z19C poller (src/main.go).  The file holds two programs that share   *)
(* buildCommand, checksum and read:                                        *)
(*   - the "goroutine" program (lines 1-215): main builds the command once *)
(*     and then, per tick, starts `go doIt(...)` and sleeps;               *)
(*   - the "sequential" program (lines 217-340): main builds the command   *)
(*     once and calls read itself, sleeping one second after a success.    *)
(* One exchange is one call of read(dev, cmd): dev.Write, time.Sleep,      *)
(* dev.Read, validation, decode.  The transport (dev) is the environment:  *)
(* every call result it can give is drawn from a bounded set.              *)
(***************************************************************************)
EXTENDS Integers, Sequences, FiniteSets

\* const cmdSize = 9
cmdSize == 9

\* Number of call frames of read that may exist at once (goroutines started
\* by main that have not returned yet).  The code has no such limit.
MaxGoroutines == 2

Slots == 1..MaxGoroutines

VARIABLES
    variant,   \* which of the two programs runs: "goroutine" | "sequential"
    mainPc,    \* position of main: "build" | "loop" | "sleep" | "inread"
    cmd,       \* the slice returned by buildCommand (<<>> before it is built)
    ex,        \* per call frame of read/doIt: [pc, steps, value]
    last,      \* what the most recent return of read saw and returned
    point,     \* the last point handed to WritePoint and whether it was written
    env,       \* SLEEP_DURATION_SECONDS (found, value) and the width of int
    sleepDuration  \* the result of initSleepDuration (NoDuration before)

vars == <<variant, mainPc, cmd, ex, last, point, env, sleepDuration>>

----------------------------------------------------------------------------
(* Byte arithmetic *)

\* byte(x) for an int x: the low 8 bits (Go truncates; x may be negative).
ToByte(x) == ((x % 256) + 256) % 256

RECURSIVE BitLen(_)
BitLen(n) == IF n = 0 THEN 0 ELSE 1 + BitLen(n \div 2)

RECURSIVE Pow2(_)
Pow2(k) == IF k = 0 THEN 1 ELSE 2 * Pow2(k - 1)

\* float32(n) for an int n >= 0: n rounded to 24 significant bits, ties to
\* even.  The result is given as the integer it denotes.
Float32(n) ==
    IF BitLen(n) <= 24 THEN n
    ELSE LET ulp == Pow2(BitLen(n) - 24)
             lo  == (n \div ulp) * ulp
             rem == n - lo
         IN  IF 2 * rem < ulp THEN lo
             ELSE IF 2 * rem > ulp THEN lo + ulp
             ELSE IF (n \div ulp) % 2 = 0 THEN lo ELSE lo + ulp

\* sum := 0; for i := 1; i < 8; i++ { sum += int(b[i]) }   (0-based 1..7)
RECURSIVE SumFrom(_, _)
SumFrom(b, i) == IF i >= 8 THEN 0 ELSE b[i + 1] + SumFrom(b, i + 1)

Zeros(n) == [i \in 1..n |-> 0]

----------------------------------------------------------------------------
(* buildCommand and checksum *)

\* buildCommand with the sum taken from byte 0 on.
buildCommandSumAll ==
    LET c0 == [Zeros(cmdSize) EXCEPT ![1] = 255, ![2] = 1, ![3] = 134]
        sum == c0[1] + SumFrom(c0, 1)
    IN  [c0 EXCEPT ![9] = ToByte(255 - sum + 1)]

\* buildCommand without the + 1 of the checksum.
buildCommandNoPlusOne ==
    LET c0 == [Zeros(cmdSize) EXCEPT ![1] = 255, ![2] = 1, ![3] = 134]
        sum == SumFrom(c0, 1)
    IN  [c0 EXCEPT ![9] = ToByte(255 - sum)]

buildCommand ==
    LET c0 == [Zeros(cmdSize) EXCEPT ![1] = 255, ![2] = 1, ![3] = 134]
        sum == SumFrom(c0, 1)
    IN  [c0 EXCEPT ![9] = ToByte(255 - sum + 1)]

\* checksum with the loop ending one byte early (i < 7).
checksumUpTo7(response) ==
    ToByte(255 - (SumFrom(response, 1) - response[8]) + 1)

\* checksum kept in the wide int, without the conversion to byte.
checksumWide(response) == 255 - SumFrom(response, 1) + 1

checksum(response) == ToByte(255 - SumFrom(response, 1) + 1)

----------------------------------------------------------------------------
(* Results of read *)

Ok(v)       == [err |-> "none", value |-> v, info |-> <<>>]
Failed(e, i) == [err |-> e, value |-> 0, info |-> i]

\* decode with low and high byte exchanged.
decodeLittleEndian(response) ==
    IF Len(response) < cmdSize
    THEN Failed("ShortResponse", <<Len(response), cmdSize>>)
    ELSE IF response[1] # 255 \/ response[2] # 134
    THEN Failed("InvalidHeader", <<response[1], response[2]>>)
    ELSE IF response[9] # checksum(response)
    THEN Failed("ChecksumMismatch", <<response[9]>>)
    ELSE Ok(Float32(response[4] * 256 + response[3]))

\* decode rejecting a header only when both of its bytes are wrong.
decodeHeaderAnd(response) ==
    IF Len(response) < cmdSize
    THEN Failed("ShortResponse", <<Len(response), cmdSize>>)
    ELSE IF response[1] # 255 /\ response[2] # 134
    THEN Failed("InvalidHeader", <<response[1], response[2]>>)
    ELSE IF response[9] # checksum(response)
    THEN Failed("ChecksumMismatch", <<response[9]>>)
    ELSE Ok(Float32(response[3] * 256 + response[4]))

\* Lines 95-109 of read: what read returns for the buffer `response` after
\* dev.Read returned without error.
decode(response) ==
    IF Len(response) < cmdSize
    THEN Failed("ShortResponse", <<Len(response), cmdSize>>)
    ELSE IF response[1] # 255 \/ response[2] # 134
    THEN Failed("InvalidHeader", <<response[1], response[2]>>)
    ELSE IF response[9] # checksum(response)
    THEN Failed("ChecksumMismatch", <<response[9]>>)
    ELSE LET high == response[3]
             low  == response[4]
         IN  Ok(Float32(high * 256 + low))

----------------------------------------------------------------------------
(* The transport: the results dev.Write and dev.Read can give *)

\* (n, err) of dev.Write(cmd), as the poll loops meet them: nothing, a part
\* or all of the frame written, with or without an error.
WriteResults == [n : {0, 5, cmdSize}, err : BOOLEAN]

\* Every (n, err) of dev.Write(cmd) with 0 <= n <= len(cmd).
AllWriteResults == [n : 0..cmdSize, err : BOOLEAN]

\* The buffer cut to the n bytes that dev.Read delivered.
FillShort(f, n) == SubSeq(f, 1, n)

\* response := make([]byte, cmdSize) after dev.Read copied the first n bytes
\* of f into it: the rest keeps the zero that make gave it.
Fill(f, n) == [i \in 1..cmdSize |-> IF i <= n THEN f[i] ELSE 0]

\* A 9-byte frame on the line: header b0 b1, payload p (bytes 2, 3), tail t
\* (bytes 4..7) and byte 8 at offset d from the checksum of bytes 1..7.
Frame(b0, b1, p, t, d) ==
    LET f == <<b0, b1>> \o p \o t \o <<0>>
    IN  [f EXCEPT ![9] = ToByte(255 - SumFrom(f, 1) + 1 + d)]

\* (n, err) of dev.Read(response) and the buffer it leaves, for the frames
\* in F and the byte counts in N.
ReadsOf(F, N) ==
    {[n |-> n, err |-> e, buf |-> Fill(f, n)] : f \in F, n \in N, e \in BOOLEAN}

\* What the poll loops meet on the line: the 1000 ppm frame and a frame whose
\* first three bytes alone sum to zero, each with a right or wrong start
\* marker, opcode and checksum; delivered not at all, in part or in full.
Frames ==
    {Frame(b0, b1, p, <<0, 0, 0, 0>>, d) :
        b0 \in {255, 0}, b1 \in {134, 1}, p \in {<<3, 232>>, <<122, 0>>},
        d \in {0, 1}}

ReadResults == ReadsOf(Frames, {0, 3, cmdSize})

\* The inputs of one call of read taken alone: fully delivered frames with
\* the right header and every high byte, or every low byte, of the payload;
\* and every byte count 0..9 for frames with right and wrong headers, tails
\* and checksums.
Payloads ==
    {<<h, l>> : h \in 0..255, l \in {0, 232, 255}}
        \cup {<<h, l>> : h \in {0, 3, 255}, l \in 0..255}

PayloadFrames ==
    {Frame(255, 134, p, <<0, 0, 0, 0>>, d) : p \in Payloads, d \in {0, 1, 255}}
        \cup {Frame(255, 134, <<3, 232>>, <<0, 0, 0, 0>>, d) : d \in 0..255}

EdgeFrames ==
    {Frame(b0, b1, p, t, d) :
        b0 \in {255, 0, 254}, b1 \in {134, 1, 135, 255},
        p \in {<<0, 0>>, <<3, 232>>, <<122, 0>>, <<255, 255>>},
        t \in {<<0, 0, 0, 0>>, <<128, 0, 7, 255>>, <<255, 255, 255, 255>>},
        d \in {0, 1, 128, 255}}

AllReadResults ==
    ReadsOf(PayloadFrames, {cmdSize}) \cup ReadsOf(EdgeFrames, 0..cmdSize)

----------------------------------------------------------------------------
(* read, lines 77-110 *)

\* writeCheck without the comparison of n with len(cmd).
writeCheckErrOnly(w, c) ==
    IF w.err THEN Failed("WriteFailure", <<>>) ELSE Ok(0)

\* Lines 81-86: the result of read when dev.Write returned w; "none" when
\* read goes on.
writeCheck(w, c) ==
    IF w.err THEN Failed("WriteFailure", <<>>)
    ELSE IF w.n # Len(c) THEN Failed("ShortWrite", <<w.n, Len(c)>>)
    ELSE Ok(0)

\* Lines 91-109: the result of read when dev.Read returned r.
readCheck(r) ==
    IF r.err THEN Failed("ReadFailure", <<>>) ELSE decode(r.buf)

\* readFlow without the settle delay between Write and Read.
readFlowNoSettle(pc, res) ==
    CASE pc = "write"  -> IF res.err = "none" THEN "read" ELSE "return"
      [] pc = "settle" -> "read"
      [] pc = "read"   -> "return"

\* readFlow writing again after a short write.
readFlowRetry(pc, res) ==
    CASE pc = "write"  -> IF res.err = "none" THEN "settle"
                          ELSE IF res.err = "ShortWrite" THEN "write"
                          ELSE "return"
      [] pc = "settle" -> "read"
      [] pc = "read"   -> "return"

\* The control flow of read: where it goes from the transport step pc whose
\* checks gave res.  Write (80), then Sleep (88), then Read (90); a failed
\* check returns at once (82, 85) and the end of read returns (92-109).
readFlow(pc, res) ==
    CASE pc = "write"  -> IF res.err = "none" THEN "settle" ELSE "return"
      [] pc = "settle" -> "read"
      [] pc = "read"   -> "return"

----------------------------------------------------------------------------
(* initSleepDuration, lines 153-168.  An int, and the int64 of a            *)
(* time.Duration, are held as their magnitude in base 2^16, lowest digit    *)
(* first and without leading zeros, so that no value leaves the range of    *)
(* the checker's own integers.                                             *)

DigitChars == <<"0", "1", "2", "3", "4", "5", "6", "7", "8", "9">>

IsDigit(c) == \E d \in 1..10 : DigitChars[d] = c

DigitVal(c) == (CHOOSE d \in 1..10 : DigitChars[d] = c) - 1

\* x * c + k, exactly, for small c and k.
RECURSIVE MulAdd(_, _, _)
MulAdd(x, c, k) ==
    IF x = <<>>
    THEN IF k = 0 THEN <<>> ELSE <<k % 65536>> \o MulAdd(<<>>, c, k \div 65536)
    ELSE LET t == Head(x) * c + k
         IN  <<t % 65536>> \o MulAdd(Tail(x), c, t \div 65536)

\* x < y
RECURSIVE Less(_, _)
Less(x, y) ==
    IF Len(x) # Len(y) THEN Len(x) < Len(y)
    ELSE IF x = <<>> THEN FALSE
    ELSE IF x[Len(x)] # y[Len(y)] THEN x[Len(x)] < y[Len(y)]
    ELSE Less(SubSeq(x, 1, Len(x) - 1), SubSeq(y, 1, Len(y) - 1))

\* 2^(bits - 1) for an int of 32 or of 64 bits.
SignBit(bits) == IF bits = 32 THEN <<0, 32768>> ELSE <<0, 0, 0, 32768>>

\* The magnitude of a string of decimal digits.
RECURSIVE Magnitude(_, _)
Magnitude(s, acc) ==
    IF s = <<>> THEN acc
    ELSE Magnitude(Tail(s), MulAdd(acc, 10, DigitVal(Head(s))))

\* strconv.Atoi(s) for an int of `bits` bits: an optional sign, then decimal
\* digits only; a value out of the range of int is an error.
Atoi(s, bits) ==
    LET signed == s # <<>> /\ s[1] \in {"+", "-"}
        neg    == s # <<>> /\ s[1] = "-"
        body   == IF signed THEN Tail(s) ELSE s
    IN  IF body = <<>> \/ \E i \in 1..Len(body) : ~IsDigit(body[i])
        THEN [err |-> "syntax", neg |-> FALSE, mag |-> <<>>]
        ELSE LET mag == Magnitude(body, <<>>)
             IN  IF (~neg /\ ~Less(mag, SignBit(bits)))
                      \/ (neg /\ Less(SignBit(bits), mag))
                 THEN [err |-> "range", neg |-> FALSE, mag |-> <<>>]
                 ELSE [err |-> "none", neg |-> neg /\ mag # <<>>, mag |-> mag]

\* The int 60.
Sixty == [err |-> "none", neg |-> FALSE, mag |-> <<60>>]

\* The low 64 bits of x as an int64 in two's complement: its sign and its
\* four digits.
Int64(x) ==
    LET w == [i \in 1..4 |-> IF i <= Len(x) THEN x[i] ELSE 0]
    IN  [neg |-> w[4] >= 32768, bits |-> w]

\* x * 10^9, exactly (time.Second is 1000000000 nanoseconds).
TimesSecond(x) == MulAdd(MulAdd(MulAdd(x, 1000, 0), 1000, 0), 1000, 0)

\* initSleepDuration for the environment e: SLEEP_DURATION_SECONDS found or
\* not, its value, and the width of int in the build.
initSleepDuration(e) ==
    LET durationStr == IF e.found THEN e.value ELSE <<"6", "0">>
        parsed      == Atoi(durationStr, e.intBits)
        duration    == IF parsed.err # "none" THEN Sixty ELSE parsed
        positive    == IF duration.neg \/ duration.mag = <<>> THEN Sixty ELSE duration
    IN  Int64(TimesSecond(positive.mag))

----------------------------------------------------------------------------
(* State *)

Free    == [pc |-> "free",  steps |-> <<>>, wrote |-> -1, value |-> 0]
Started == [pc |-> "write", steps |-> <<>>, wrote |-> -1, value |-> 0]

NoReturn ==
    [steps |-> <<>>, wrote |-> -1, werr |-> FALSE, delivered |-> -1,
     rerr |-> FALSE, response |-> <<>>, res |-> Ok(0)]

\* No point handed to WritePoint yet.
NoPoint == [value |-> -1, ok |-> FALSE]

\* initSleepDuration not called yet.
NoDuration == [neg |-> FALSE, bits |-> <<>>]

\* SLEEP_DURATION_SECONDS not set, in a build whose int has 64 bits.
Unset == [found |-> FALSE, value |-> <<>>, intBits |-> 64]

Init ==
    /\ variant \in {"goroutine", "sequential"}
    /\ mainPc = "build"
    /\ cmd = <<>>
    /\ ex = [e \in Slots |-> Free]
    /\ last = NoReturn
    /\ point = NoPoint
    /\ env = Unset
    /\ sleepDuration = NoDuration

\* sleepDuration := initSleepDuration()   (line 208; the sequential program
\* has no such call and sleeps one second, line 338)
InitSleepDuration ==
    /\ variant = "goroutine"
    /\ mainPc = "build"
    /\ sleepDuration = NoDuration
    /\ sleepDuration' = initSleepDuration(env)
    /\ UNCHANGED <<variant, mainPc, cmd, ex, last, point, env>>

\* cmd := buildCommand()   (lines 210, 330)
BuildCommand ==
    /\ mainPc = "build"
    /\ variant = "goroutine" => sleepDuration # NoDuration
    /\ cmd' = buildCommand
    /\ mainPc' = "loop"
    /\ UNCHANGED <<variant, ex, last, point, env, sleepDuration>>

FreeSlots == {e \in Slots : ex[e].pc = "free"}

\* go doIt(c, cmd, client, influxInfo, loc)   (line 212): a new goroutine
\* enters read; main goes on to time.Sleep(sleepDuration).
Spawn ==
    /\ variant = "goroutine"
    /\ mainPc = "loop"
    /\ FreeSlots # {}
    /\ LET e == CHOOSE x \in FreeSlots : \A y \in FreeSlots : x <= y
       IN  ex' = [ex EXCEPT ![e] = Started]
    /\ mainPc' = "sleep"
    /\ UNCHANGED <<variant, cmd, last, point, env, sleepDuration>>

\* res, err := read(c, cmd)   (line 332): main itself enters read.
Call ==
    /\ variant = "sequential"
    /\ mainPc = "loop"
    /\ ex' = [ex EXCEPT ![1] = Started]
    /\ mainPc' = "inread"
    /\ UNCHANGED <<variant, cmd, last, point, env, sleepDuration>>

\* time.Sleep returns (lines 213, 338) and the loop starts over.
SleepDone ==
    /\ mainPc = "sleep"
    /\ mainPc' = "loop"
    /\ UNCHANGED <<variant, cmd, ex, last, point, env, sleepDuration>>

\* read goes on to the transport step pc2.
Advance(e, op, pc2, n) ==
    /\ ex' = [ex EXCEPT ![e].pc = pc2, ![e].steps = Append(@, op), ![e].wrote = n]
    /\ UNCHANGED <<variant, mainPc, cmd, last, point, env, sleepDuration>>

\* Return with doIt going on to send after an error of read.
ReturnSendAlways(e, seen, res) ==
    /\ last' = [seen EXCEPT !.res = res]
    /\ IF variant = "goroutine"
       THEN /\ ex' = [ex EXCEPT ![e] =
                        [pc |-> "send", steps |-> seen.steps,
                         wrote |-> seen.wrote, value |-> res.value]]
            /\ UNCHANGED mainPc
       ELSE /\ ex' = [ex EXCEPT ![e] = Free]
            /\ mainPc' = IF res.err = "none" THEN "sleep" ELSE "loop"
    /\ UNCHANGED <<variant, cmd, point, env, sleepDuration>>

\* Return with the caller ending the process on an error of read (log.Fatal).
ReturnFatal(e, seen, res) ==
    /\ last' = [seen EXCEPT !.res = res]
    /\ IF variant = "goroutine"
       THEN /\ ex' = [ex EXCEPT ![e] =
                        IF res.err = "none"
                        THEN [pc |-> "send", steps |-> seen.steps,
                              wrote |-> seen.wrote, value |-> res.value]
                        ELSE Free]
            /\ mainPc' = IF res.err = "none" THEN mainPc ELSE "exit"
       ELSE /\ ex' = [ex EXCEPT ![e] = Free]
            /\ mainPc' = IF res.err = "none" THEN "sleep" ELSE "exit"
    /\ UNCHANGED <<variant, cmd, point, env, sleepDuration>>

\* Return with dev.Read having read into cmd instead of response.
ReturnIntoCmd(e, seen, res) ==
    /\ last' = [seen EXCEPT !.res = res]
    /\ IF variant = "goroutine"
       THEN /\ ex' = [ex EXCEPT ![e] =
                        IF res.err = "none"
                        THEN [pc |-> "send", steps |-> seen.steps,
                              wrote |-> seen.wrote, value |-> res.value]
                        ELSE Free]
            /\ UNCHANGED mainPc
       ELSE /\ ex' = [ex EXCEPT ![e] = Free]
            /\ mainPc' = IF res.err = "none" THEN "sleep" ELSE "loop"
    /\ cmd' = IF seen.delivered >= 0 THEN seen.response ELSE cmd
    /\ UNCHANGED <<variant, point, env, sleepDuration>>

\* read returns res to its caller, which handles it up to its next blocking
\* call: doIt (lines 183-189) logs an error and ends, or logs the value and
\* calls send; main of the sequential program (lines 332-338) logs an error
\* and continues the loop, or logs the value and sleeps.
Return(e, seen, res) ==
    /\ last' = [seen EXCEPT !.res = res]
    /\ IF variant = "goroutine"
       THEN /\ ex' = [ex EXCEPT ![e] =
                        IF res.err = "none"
                        THEN [pc |-> "send", steps |-> seen.steps,
                              wrote |-> seen.wrote, value |-> res.value]
                        ELSE Free]
            /\ UNCHANGED mainPc
       ELSE /\ ex' = [ex EXCEPT ![e] = Free]
            /\ mainPc' = IF res.err = "none" THEN "sleep" ELSE "loop"
    /\ UNCHANGED <<variant, cmd, point, env, sleepDuration>>

\* One transport step of read done, with the result res of its checks.
Step(e, seen, res) ==
    LET pc2 == readFlow(ex[e].pc, res)
    IN  IF pc2 = "return"
        THEN Return(e, seen, res)
        ELSE Advance(e, ex[e].pc, pc2, seen.wrote)

\* n, err := dev.Write(cmd) and its checks   (lines 80-86), dev.Write giving
\* one of the results in W.
DevWriteFrom(e, W) ==
    /\ ex[e].pc = "write"
    /\ \E w \in W :
         Step(e, [NoReturn EXCEPT !.steps = Append(ex[e].steps, "write"),
                                  !.wrote = w.n, !.werr = w.err,
                                  !.response = Zeros(cmdSize)],
              writeCheck(w, cmd))

\* time.Sleep(150 * time.Millisecond)   (line 88)
Settle(e) ==
    /\ ex[e].pc = "settle"
    /\ Step(e, [NoReturn EXCEPT !.wrote = ex[e].wrote], Ok(0))

\* _, err = dev.Read(response), validation and decode   (lines 90-109),
\* dev.Read giving one of the results in R.
DevReadFrom(e, R) ==
    /\ ex[e].pc = "read"
    /\ \E r \in R :
         Step(e, [NoReturn EXCEPT !.steps = Append(ex[e].steps, "read"),
                                  !.wrote = ex[e].wrote,
                                  !.delivered = r.n, !.rerr = r.err,
                                  !.response = r.buf],
              readCheck(r))

DevWrite(e) == DevWriteFrom(e, WriteResults)

DevRead(e) == DevReadFrom(e, ReadResults)

\* send(client, info, loc, &result)   (lines 138-151, 189): WritePoint
\* succeeds or fails; a failure is logged.  doIt returns either way.
Send(e) ==
    /\ ex[e].pc = "send"
    /\ \E ok \in BOOLEAN : point' = [value |-> ex[e].value, ok |-> ok]
    /\ ex' = [ex EXCEPT ![e] = Free]
    /\ UNCHANGED <<variant, mainPc, cmd, last, env, sleepDuration>>

\* The two programs.
Next ==
    \/ InitSleepDuration
    \/ BuildCommand
    \/ Spawn
    \/ Call
    \/ SleepDone
    \/ \E e \in Slots : DevWrite(e)
    \/ \E e \in Slots : Settle(e)
    \/ \E e \in Slots : DevRead(e)
    \/ \E e \in Slots : Send(e)

Spec == Init /\ [][Next]_vars

\* What the line gives when only the course of the poll loops matters: one
\* read result for each way read can end (a measurement, a wrong header, a
\* wrong checksum, nothing delivered, an error of dev.Read).
LoopFrames ==
    {Frame(255, 134, <<3, 232>>, <<0, 0, 0, 0>>, 0),
     Frame(0, 134, <<3, 232>>, <<0, 0, 0, 0>>, 0),
     Frame(255, 134, <<3, 232>>, <<0, 0, 0, 0>>, 1)}

LoopReadResults == ReadsOf(LoopFrames, {0, cmdSize})

NextLoop ==
    \/ InitSleepDuration
    \/ BuildCommand
    \/ Spawn
    \/ Call
    \/ SleepDone
    \/ \E e \in Slots : DevWriteFrom(e, WriteResults)
    \/ \E e \in Slots : Settle(e)
    \/ \E e \in Slots : DevReadFrom(e, LoopReadResults)
    \/ \E e \in Slots : Send(e)

\* The two programs, running on whenever a step is possible: a runnable
\* goroutine is scheduled, and time.Sleep and the calls of the transport and
\* of WritePoint return.
FairSpec == Init /\ [][NextLoop]_vars /\ WF_vars(NextLoop)

----------------------------------------------------------------------------
(* One call of read taken alone: main of the sequential program has built   *)
(* the command and entered read (line 332); the transport gives any of the  *)
(* results of AllWriteResults and AllReadResults.                           *)

InitRead ==
    /\ variant = "sequential"
    /\ mainPc = "inread"
    /\ cmd = buildCommand
    /\ ex = [e \in Slots |-> IF e = 1 THEN Started ELSE Free]
    /\ last = NoReturn
    /\ point = NoPoint
    /\ env = Unset
    /\ sleepDuration = NoDuration

ReadWrite == DevWriteFrom(1, AllWriteResults)

ReadSettle == Settle(1)

ReadRead == DevReadFrom(1, AllReadResults)

NextRead == ReadWrite \/ ReadSettle \/ ReadRead

SpecRead == InitRead /\ [][NextRead]_vars

----------------------------------------------------------------------------
(* The call of initSleepDuration taken alone (line 208), for the values of  *)
(* SLEEP_DURATION_SECONDS in SleepValues and an int of 32 or of 64 bits.    *)

\* Largest number of seconds among the plain small values tried.
MaxSeconds == 40

\* The decimal digits of n >= 0.
RECURSIVE ToChars(_)
ToChars(n) ==
    IF n < 10 THEN <<DigitChars[n + 1]>>
    ELSE Append(ToChars(n \div 10), DigitChars[(n % 10) + 1])

SleepValues ==
    {ToChars(n) : n \in 0..MaxSeconds}
        \cup {ToChars(3600), ToChars(86400), ToChars(2147483647),
              <<"2", "1", "4", "7", "4", "8", "3", "6", "4", "8">>,
              <<"9", "2", "2", "3", "3", "7", "2", "0", "3", "6">>,
              <<"9", "2", "2", "3", "3", "7", "2", "0", "3", "7">>,
              <<"1", "8", "4", "4", "6", "7", "4", "4", "0", "7", "4">>,
              <<"9", "2", "2", "3", "3", "7", "2", "0", "3", "6",
                "8", "5", "4", "7", "7", "5", "8", "0", "7">>,
              <<"9", "2", "2", "3", "3", "7", "2", "0", "3", "6",
                "8", "5", "4", "7", "7", "5", "8", "0", "8">>,
              <<"-", "5">>, <<"-", "0">>, <<"+", "7">>, <<"0", "0", "9">>,
              <<>>, <<"+">>, <<"a", "b", "c">>, <<"6", "x">>, <<" ", "5">>,
              <<"1", ".", "5">>, <<"1", "_", "0">>}

SleepEnvs ==
    {[found |-> FALSE, value |-> <<>>, intBits |-> b] : b \in {32, 64}}
        \cup {[found |-> TRUE, value |-> v, intBits |-> b] :
                  v \in SleepValues, b \in {32, 64}}

InitSleep ==
    /\ variant = "goroutine"
    /\ mainPc = "build"
    /\ cmd = <<>>
    /\ ex = [e \in Slots |-> Free]
    /\ last = NoReturn
    /\ point = NoPoint
    /\ env \in SleepEnvs
    /\ sleepDuration = NoDuration

NextSleep == InitSleepDuration

SpecSleep == InitSleep /\ [][NextSleep]_vars

----------------------------------------------------------------------------
(* Properties *)

ReadOrder == <<"write", "settle", "read">>

IsPrefix(s, t) == Len(s) <= Len(t) /\ \A i \in 1..Len(s) : s[i] = t[i]

Count(s, x) == Cardinality({i \in 1..Len(s) : s[i] = x})

\* The checksum as the protocol defines it: (0xFF - sum(bytes 1..7) + 1) mod 256.
FrameSum(b) == (255 - SumFrom(b, 1) + 1) % 256

\* The last return of read followed a full write and a read that delivered
\* all 9 bytes without error.
FullyRead ==
    /\ last.steps = ReadOrder
    /\ last.wrote = cmdSize /\ ~last.werr
    /\ last.delivered = cmdSize /\ ~last.rerr

\* The last return of read followed a read call that reported success.
ReadSucceeded == last.steps = ReadOrder /\ ~last.rerr

HeaderOk == last.response[1] = 255 /\ last.response[2] = 134

InFlight == {e \in Slots : ex[e].pc \in {"write", "settle", "read"}}

\* C1: a fully delivered response with header 0xFF 0x86 and byte 8 equal to
\* the checksum of bytes 1..7 makes read return success with the measurement
\* byte2 * 256 + byte3, exactly.
C1_ValidResponseDecoded ==
    (FullyRead /\ HeaderOk /\ last.response[9] = FrameSum(last.response))
        => last.res = Ok(last.response[3] * 256 + last.response[4])

C1_Witness ==
    /\ FullyRead /\ HeaderOk /\ last.response[9] = FrameSum(last.response)
    /\ last.response[3] = 3 /\ last.response[4] = 232
    /\ last.res.value = 1000

\* C2: a read call that reports success but delivers fewer than 9 bytes makes
\* read return ShortResponse, never a measurement.
C2_ShortReadIsShortResponse ==
    (ReadSucceeded /\ last.delivered < cmdSize)
        => last.res.err = "ShortResponse"

\* C3: at most one exchange is in flight on the shared transport handle.
C3_AtMostOneInFlight == Cardinality(InFlight) <= 1

\* C4: a fully read response whose byte 0 is not 0xFF or whose byte 1 is not
\* 0x86 makes read return InvalidHeader and no decoded value, whatever the
\* other bytes and the checksum are.
C4_BadHeaderRejected ==
    (FullyRead /\ ~HeaderOk)
        => last.res = Failed("InvalidHeader",
                             <<last.response[1], last.response[2]>>)

C4_Witness ==
    /\ FullyRead
    /\ last.response[1] = 0 /\ last.response[2] = 134
    /\ last.response[9] = FrameSum(last.response)
    /\ last.res.err = "InvalidHeader"

\* C5: a fully read response with the right header whose byte 8 differs from
\* the checksum of bytes 1..7 makes read return ChecksumMismatch and no
\* measurement.
C5_BadChecksumRejected ==
    (FullyRead /\ HeaderOk /\ last.response[9] # FrameSum(last.response))
        => last.res = Failed("ChecksumMismatch", <<last.response[9]>>)

C5_Witness ==
    /\ FullyRead /\ HeaderOk
    /\ last.response[9] = (FrameSum(last.response) + 128) % 256
    /\ last.res.err = "ChecksumMismatch"

\* C6: when dev.Write reports an error or fewer than 9 bytes written, read
\* returns the write failure and never calls dev.Read in that exchange.
C6_WriteFailureStopsExchange ==
    /\ (Len(last.steps) > 0 /\ (last.werr \/ last.wrote < cmdSize))
          => /\ last.res.err = IF last.werr THEN "WriteFailure" ELSE "ShortWrite"
             /\ last.steps = <<"write">>
             /\ last.delivered = -1
    /\ \A e \in Slots :
          ex[e].pc \in {"settle", "read", "send"} => ex[e].wrote = cmdSize

C6_Witness ==
    /\ last.steps = <<"write">>
    /\ last.wrote = 5 /\ ~last.werr
    /\ last.res.err = "ShortWrite"

\* C7: within one exchange the transport steps occur in the order write,
\* settle delay, read; the read follows a write of all 9 bytes and no write
\* follows the read.
C7_WriteSettleRead ==
    /\ IsPrefix(last.steps, ReadOrder)
    /\ Count(last.steps, "read") > 0 => last.wrote = cmdSize /\ ~last.werr
    /\ \A e \in Slots :
          /\ IsPrefix(ex[e].steps, ReadOrder)
          /\ ex[e].pc = "read" => ex[e].steps = <<"write", "settle">>
          /\ Count(ex[e].steps, "read") > 0 => ex[e].wrote = cmdSize

C7_Witness ==
    \E e \in Slots : ex[e].pc = "send" /\ ex[e].steps = ReadOrder

\* C8: no retry inside one exchange: at most one dev.Write and at most one
\* dev.Read per call of read, which returns on the first failing step.
C8_NoRetry ==
    /\ Count(last.steps, "write") <= 1 /\ Count(last.steps, "read") <= 1
    /\ last.res.err \in {"WriteFailure", "ShortWrite"}
          => last.steps = <<"write">>
    /\ \A e \in Slots :
          Count(ex[e].steps, "write") <= 1 /\ Count(ex[e].steps, "read") <= 1

C8_Witness ==
    /\ last.res.err = "ReadFailure"
    /\ Count(last.steps, "write") = 1 /\ Count(last.steps, "read") = 1

\* C9: the checksum function applied to the frame the Command Builder built
\* gives that frame's byte 8.
C9_CommandChecksumRoundTrip ==
    mainPc # "build" => checksum(cmd) = cmd[9]

C9_Witness == mainPc # "build" /\ Len(cmd) = cmdSize /\ checksum(cmd) = 121

\* C10: the Command Builder returns the frame FF 01 86 00 00 00 00 00 79 in
\* every call (both programs build the same frame).
C10_CommandFrameFixed ==
    mainPc # "build" => cmd = <<255, 1, 134, 0, 0, 0, 0, 0, 121>>

C10_Witness ==
    /\ mainPc = "loop" /\ last = NoReturn
    /\ cmd[1] = 255 /\ cmd[2] = 1 /\ cmd[3] = 134 /\ cmd[9] = 121

\* The sum of bytes 1..7 of a frame.
Sum1to7(b) == b[2] + b[3] + b[4] + b[5] + b[6] + b[7] + b[8]

ProbeBytes == {0, 1, 127, 128, 254, 255}

\* C11: for every 9-byte frame checksum returns (0xFF - sum(bytes 1..7) + 1)
\* mod 256, a byte even when the wide intermediate is negative, so that
\* sum + checksum is 0 mod 256; bytes 0 and 8 do not influence it.
C11_ChecksumIsByteComplement ==
    last.steps = ReadOrder =>
        LET b == last.response
            c == checksum(b)
        IN  /\ c \in 0..255
            /\ c = (255 - Sum1to7(b) + 1) % 256
            /\ (Sum1to7(b) + c) % 256 = 0
            /\ \A x \in ProbeBytes :
                  /\ checksum([b EXCEPT ![1] = x]) = c
                  /\ checksum([b EXCEPT ![9] = x]) = c

C11_Witness ==
    /\ last.steps = ReadOrder
    /\ \A i \in 2..8 : last.response[i] = 255
    /\ 255 - Sum1to7(last.response) + 1 < 0
    /\ checksum(last.response) = 7

\* C12: doIt hands a measurement to the persistence collaborator exactly once
\* for each exchange that succeeded, with that exchange's value, and never
\* for an exchange that returned an error.
C12_PersistOncePerSuccess ==
    [][/\ \A e \in Slots :
            /\ (ex[e].pc # "send" /\ ex'[e].pc = "send")
                  => /\ ex[e].pc = "read"
                     /\ last'.steps = ReadOrder /\ last'.res.err = "none"
                     /\ ex'[e].value = last'.res.value
            /\ (variant = "goroutine" /\ ex[e].pc \in {"write", "read"}
                  /\ ex'[e].pc \notin {"write", "settle", "read"})
                  => /\ last'.res.err = "none" => ex'[e].pc = "send"
                     /\ last'.res.err # "none" => ex'[e].pc = "free"
            /\ (ex[e].pc = "send" /\ ex'[e] # ex[e])
                  => /\ ex'[e].pc = "free"
                     /\ point'.value = ex[e].value
       /\ point' # point
            => \E e \in Slots :
                  /\ ex[e].pc = "send" /\ ex'[e].pc = "free"
                  /\ point'.value = ex[e].value]_vars

C12_Witness ==
    /\ point.value = 1000 /\ point.ok
    /\ last.res.err # "none"
    /\ \A e \in Slots : ex[e].pc # "send"

\* C13: no exchange error and no persistence error ends the poll loop: the
\* scheduler starts another exchange again and again, forever.
C13_PollLoopNeverEnds == []<><<Spawn \/ Call>>_vars

C13_Witness ==
    /\ point.value >= 0 /\ ~point.ok
    /\ last.res.err = "ChecksumMismatch"
    /\ \E e \in Slots : ex[e].pc = "write"

\* C14: between the starts of two consecutive exchanges the poll loop waits
\* one polling interval, also after an exchange that returned an error: main
\* comes back to the top of its loop only from its sleep.
C14_SleepBetweenStarts ==
    [][(mainPc' = "loop" /\ mainPc # "loop") => mainPc \in {"build", "sleep"}]_vars

\* The outcome by the first failing step in the order write failure,
\* ReadFailure, ShortResponse, InvalidHeader, ChecksumMismatch, success.
FirstFailure ==
    IF last.werr THEN "WriteFailure"
    ELSE IF last.wrote # cmdSize THEN "ShortWrite"
    ELSE IF last.rerr THEN "ReadFailure"
    ELSE IF last.delivered < cmdSize THEN "ShortResponse"
    ELSE IF ~HeaderOk THEN "InvalidHeader"
    ELSE IF last.response[9] # FrameSum(last.response) THEN "ChecksumMismatch"
    ELSE "none"

\* C15: each exchange ends with the one outcome of its first failing step, in
\* the order write failure, ReadFailure, ShortResponse, InvalidHeader,
\* ChecksumMismatch, else success.
C15_OutcomeOfFirstFailingStep ==
    Len(last.steps) > 0 => last.res.err = FirstFailure

\* C16: a measurement is returned only when dev.Read delivered all 9 bytes.
C16_MeasurementNeedsFullRead ==
    (last.steps = ReadOrder /\ last.res.err = "none")
        => last.delivered = cmdSize

\* The 0-based indices that the header check, the checksum and the decode use.
UsedIndices == {0, 1, 8} \cup 1..7 \cup {2, 3}

\* C17: whatever dev.Read delivers (0..9 bytes, any content), every index
\* used by the header check, the checksum and the decode lies within the
\* response buffer.
C17_IndicesInBounds ==
    (last.steps = ReadOrder /\ ~last.rerr)
        => \A i \in UsedIndices : i + 1 \in DOMAIN last.response

C17_Witness ==
    /\ last.steps = ReadOrder /\ ~last.rerr
    /\ last.delivered = 0
    /\ Len(last.response) = cmdSize

\* C18: the command frame built at startup is never changed by an exchange.
C18_CommandNeverMutated == [][cmd # <<>> => cmd' = cmd]_vars

C18_Witness ==
    /\ Cardinality(InFlight) = 2
    /\ last.steps = ReadOrder
    /\ cmd = <<255, 1, 134, 0, 0, 0, 0, 0, 121>>

\* The seconds initSleepDuration is to return for the environment e: N when
\* the variable holds a positive integer N that fits an int, else 60.
SecondsWanted(e) ==
    LET a == Atoi(e.value, e.intBits)
    IN  IF e.found /\ a.err = "none" /\ ~a.neg /\ a.mag # <<>>
        THEN a.mag ELSE <<60>>

\* C19: initSleepDuration returns a strictly positive interval: N seconds for
\* a positive integer N, 60 seconds otherwise.
C19_SleepDurationPositive ==
    sleepDuration # NoDuration =>
        LET exact == TimesSecond(SecondsWanted(env))
        IN  /\ ~sleepDuration.neg
            /\ sleepDuration.bits # <<0, 0, 0, 0>>
            /\ Len(exact) <= 4
            /\ sleepDuration = Int64(exact)

====
